---- MODULE Spec2Model ----
(***************************************************************************)
(* A model of the DHALSIM PLC processes.                                   *)
(*                                                                         *)
(*  - GenericPLC (dhalsim/python2/generic_plc.py): n PLC processes that    *)
(*    run main_loop against the shared sync / master_time tables, next to  *)
(*    the physical-process simulator that releases them.                   *)
(*  - set_tag / get_tag of GenericPLC as operators.                        *)
(*  - PLC2 (ICS_topologies/enhanced_ctown_topology/plc2.py): the retry     *)
(*    loop, the broadcast thread and the signal handler.                   *)
(***************************************************************************)
EXTENDS Integers, Sequences, FiniteSets, TLC

VARIABLES
    plcs,          \* self.intermediate_yaml["plcs"]: the topology, a sequence of descriptors
    sync,          \* table sync(name, flag)
    master_time,   \* table master_time(id = 1, time)
    store,         \* the tag values (minicps state), tag -> value
    pc,            \* per PLC: position in GenericPLC.main_loop
    idx,           \* per PLC: index of the rule the for-loop is at
    simpc,         \* position of the physical-process simulator
    exc,           \* per PLC: the exception that left main_loop ("none" while running)
    trig,          \* history: per PLC, the Control and Attack objects that triggered in the iteration
    polled,        \* history: per PLC, the flag values polled in the current wait ("", "1", "0", "10")
    readFails,     \* history: per PLC, failed tag reads in the iteration
    last,          \* history: the last committed write to the shared store
    applied,       \* history: per PLC, the rules applied in the iteration, in order
    stats,         \* history: per PLC, its iterations, flag writes and clock reads
    clears,        \* history: how often the simulator has reset the flags
    call,          \* history: the last set_tag call, its arguments and its outcome
    got,           \* history: the last get_tag call, its arguments and its outcome
    \* PLC2
    t1,                  \* self.t1
    local_time,          \* self.local_time
    saved_tank_levels,   \* self.saved_tank_levels, without the header row
    get_error_counter,   \* main_loop's get_error_counter
    lock,                \* self.lock: "free" or the thread that holds it
    mpc,                 \* position of the main thread in PLC2.main_loop
    proc,                \* "running", "aborted" (exit(0) in main_loop) or "exited" (signal)
    output,              \* the rows written to the output file ("none" until written)
    fails,               \* history: failed reads since the last successful read
    bread                \* history: who held self.lock when send_system_state last read self.t1

gvars == <<plcs, sync, master_time, store, pc, idx, simpc, exc, trig, polled,
           readFails, last, applied, stats, clears>>

p2vars == <<t1, local_time, saved_tank_levels, get_error_counter, lock, mpc, proc,
            output, fails, bread>>

vars == <<gvars, call, got, p2vars>>

-----------------------------------------------------------------------------
(* Bounds of the model *)

\* PLC2.main_loop starts no further read once local_time is MaxLocalTime.
MaxLocalTime == 2

\* The simulator stops advancing the master clock at MaxClock.
MaxClock == 2

\* The longest control list and the longest attack list a descriptor declares.
MaxRules == 2

-----------------------------------------------------------------------------
(* Program constants *)

\* PLC2.main_loop: get_error_counter_limit = 100
get_error_counter_limit == 100

-----------------------------------------------------------------------------
(* Values *)

\* A python value handed to set_tag: a string or an integer.
PyStr(s) == [kind |-> "str", s |-> s, n |-> 0]
PyInt(n) == [kind |-> "int", s |-> "", n |-> n]

\* str.lower() on the strings that occur in the model.
Lower(s) ==
    CASE s = "OPEN" -> "open"
      [] s = "Open" -> "open"
      [] s = "CLOSED" -> "closed"
      [] s = "Closed" -> "closed"
      [] s = "Above" -> "above"
      [] s = "Below" -> "below"
      [] s = "Time" -> "time"
      [] s = "Between" -> "between"
      [] OTHER -> s

\* python's  x in list
InList(x, l) == \E i \in 1..Len(l) : l[i] = x

\* Sensor readings (fixed-point, scaled to integers) the plant produces.
SensorValues == {8, 12}

-----------------------------------------------------------------------------
(* The topology: intermediate_yaml["plcs"] *)

\* Control dicts of the yaml. A time control has no dependant.
Control(type, actuator, action, dependant, value) ==
    [type |-> type, actuator |-> actuator, action |-> action,
     dependant |-> dependant, value |-> value]

\* Attack dicts of the yaml; the keys a type does not use are left at their default.
Attack(name, type, actuators, command, sensor, value, lo, hi) ==
    [name |-> name, type |-> type, actuators |-> actuators, command |-> command,
     sensor |-> sensor, value |-> value,
     start |-> lo, end |-> hi, lower_value |-> lo, upper_value |-> hi]

\* Control dicts a descriptor may declare for plc2.
ControlPool ==
    { Control("Below", "P1", PyStr("open"), "T1", 10),
      Control("time", "P1", PyStr("closed"), "", 1),
      Control("above", "P2", PyStr("open"), "T1", 10) }

\* Attack dicts a descriptor may declare for plc2.
AttackPool ==
    { Attack("a_time", "Time", "P1", PyStr("closed"), "", 0, 1, 2),
      Attack("a_between", "between", "P1", PyStr("OPEN"), "T1", 0, 5, 9),
      Attack("a_below", "below", "P1", PyStr("auto"), "T1", 10, 0, 0) }

\* The lists of at most n distinct elements of S.
ListsUpTo(S, n) ==
    { l \in UNION { [1..k -> S] : k \in 0..n } :
         \A i, j \in DOMAIN l : l[i] = l[j] => i = j }

Descriptor(name, ip, sensors, actuators, controls, attacks) ==
    [name |-> name, public_ip |-> ip, sensors |-> sensors, actuators |-> actuators,
     controls |-> controls, attacks |-> attacks]

\* plc1 owns sensor T1 and actuator P2 and switches P2 on the clock.
Plc1 ==
    Descriptor("plc1", "ip1", <<"T1">>, <<"P2">>,
               << Control("Time", "P2", PyStr("Open"), "", 1) >>, << >>)

\* plc2 owns actuator P1; its rules depend on T1, which it reads from plc1.
Plc2(controls, attacks) ==
    Descriptor("plc2", "ip2", << >>, <<"P1">>, controls, attacks)

Topologies ==
    { << Plc1, Plc2(cs, as) >> :
         cs \in ListsUpTo(ControlPool, MaxRules), as \in ListsUpTo(AttackPool, MaxRules) }

PLCs == DOMAIN plcs
Names == { plcs[p].name : p \in PLCs }

\* The tags the tag store holds, and a tag no descriptor declares.
StoreTags == {"T1", "P1", "P2"}
AllTags == StoreTags \cup {"X9"}

-----------------------------------------------------------------------------
(* GenericPLC: operators translated from generic_plc.py *)

RECURSIVE get_tag_scan(_, _, _, _)

\* A list in reverse order.
Reverse(l) == [i \in 1..Len(l) |-> l[Len(l) + 1 - i]]

\* create_controls with ret.insert(0, ...) in place of ret.append(...).
create_controls_reversed(controls_list) ==
    Reverse(SelectSeq(controls_list,
                      LAMBDA c : Lower(c.type) \in {"above", "below", "time"}))

\* create_controls: one Control object per dict of a known type, in list order.
create_controls(controls_list) ==
    SelectSeq(controls_list, LAMBDA c : Lower(c.type) \in {"above", "below", "time"})

\* create_attacks: one Attack object per dict of a known type, in list order.
create_attacks(attack_list) ==
    SelectSeq(attack_list,
              LAMBDA a : Lower(a.type) \in {"time", "above", "below", "between"})

\* self.controls and self.attacks, built by __init__ from the PLC's descriptor.
controls(p) == create_controls(plcs[p].controls)
attacks(p) == create_attacks(plcs[p].attacks)

\* tag in self.intermediate_plc["sensors"] or tag in self.intermediate_plc["actuators"]
Declares(desc, tag) == InList(tag, desc.sensors) \/ InList(tag, desc.actuators)

\* set_tag that skips the ownership test and writes whatever tag it is given.
set_tag_unchecked(desc, st, tag, value) ==
    IF value.kind = "str" /\ Lower(value.s) = "closed"
    THEN [exc |-> "none", store |-> [t \in DOMAIN st |-> IF t = tag THEN 0 ELSE st[t]]]
    ELSE IF value.kind = "str" /\ Lower(value.s) = "open"
    THEN [exc |-> "none", store |-> [t \in DOMAIN st |-> IF t = tag THEN 1 ELSE st[t]]]
    ELSE [exc |-> "InvalidControlValue", store |-> st]

\* set_tag that maps "open" to 0 and "closed" to 1.
set_tag_swapped(desc, st, tag, value) ==
    IF ~(value.kind = "str" /\ Lower(value.s) \in {"closed", "open"})
    THEN [exc |-> "InvalidControlValue", store |-> st]
    ELSE IF Declares(desc, tag)
    THEN [exc |-> "none",
          store |-> [st EXCEPT ![tag] = IF Lower(value.s) = "closed" THEN 1 ELSE 0]]
    ELSE [exc |-> "TagDoesNotExist", store |-> st]

\* set_tag(tag, value) of the PLC with descriptor desc on tag store st:
\* the exception it raises ("none" when it returns) and the store it leaves.
set_tag(desc, st, tag, value) ==
    IF ~(value.kind = "str" /\ Lower(value.s) \in {"closed", "open"})
    THEN [exc |-> "InvalidControlValue", store |-> st]
    ELSE IF Declares(desc, tag)
    THEN [exc |-> "none",
          store |-> [st EXCEPT ![tag] = IF Lower(value.s) = "closed" THEN 0 ELSE 1]]
    ELSE [exc |-> "TagDoesNotExist", store |-> st]

\* __init__: the PLC's own descriptor gets an empty list for a missing 'sensors'
\* or 'actuators' key; the descriptors of its peers stay as the yaml has them.
intermediate_plc(desc) ==
    [f \in DOMAIN desc \cup {"sensors", "actuators"} |->
        IF f \in DOMAIN desc THEN desc[f] ELSE << >>]

\* The for-loop of get_tag from descriptor i on: the first peer whose 'sensors' or
\* 'actuators' list holds the tag is read over the network; plc_data["sensors"]
\* and plc_data["actuators"] raise KeyError for a descriptor without the key, and
\* `or` does not look at the actuators when the sensors hold the tag.
get_tag_scan(topo, self, tag, i) ==
    IF i > Len(topo)
    THEN [exc |-> "TagDoesNotExist", how |-> "none", peer |-> 0, receives |-> << >>]
    ELSE IF i = self
    THEN get_tag_scan(topo, self, tag, i + 1)
    ELSE IF "sensors" \notin DOMAIN topo[i]
    THEN [exc |-> "KeyError", how |-> "none", peer |-> i, receives |-> << >>]
    ELSE IF InList(tag, topo[i]["sensors"])
    THEN [exc |-> "none", how |-> "remote", peer |-> i,
          receives |-> << topo[i]["public_ip"] >>]
    ELSE IF "actuators" \notin DOMAIN topo[i]
    THEN [exc |-> "KeyError", how |-> "none", peer |-> i, receives |-> << >>]
    ELSE IF InList(tag, topo[i]["actuators"])
    THEN [exc |-> "none", how |-> "remote", peer |-> i,
          receives |-> << topo[i]["public_ip"] >>]
    ELSE get_tag_scan(topo, self, tag, i + 1)

\* get_tag(tag) of PLC self: where the value is read from.
\*   how = "local": self.get;  how = "remote": self.receive from topo[peer].public_ip
\*   receives: the addresses self.receive was called with
get_tag(topo, self, tag) ==
    IF Declares(intermediate_plc(topo[self]), tag)
    THEN [exc |-> "none", how |-> "local", peer |-> self, receives |-> << >>]
    ELSE get_tag_scan(topo, self, tag, 1)

\* set_sync that leaves out the WHERE clause: UPDATE sync SET flag=?
set_sync_all_rows(tbl, name, flag) == [n \in DOMAIN tbl |-> flag]

\* set_sync(flag) of the PLC called name: UPDATE sync SET flag=? WHERE name IS ?
set_sync(tbl, name, flag) ==
    [n \in DOMAIN tbl |-> IF n = name THEN flag ELSE tbl[n]]

\* get_sync that answers True whatever the flag is.
get_sync_always(tbl, name) == tbl[name] = tbl[name]

\* get_sync that answers True for a flag of 0.
get_sync_negated(tbl, name) == tbl[name] = 0

\* get_sync() of the PLC called name: SELECT flag FROM sync WHERE name IS ?
get_sync(tbl, name) == tbl[name] # 0

\* get_master_clock that answers the time the table was created with.
get_master_clock_stale(mt) == 0

\* get_master_clock(): SELECT time FROM master_time WHERE id IS 1
get_master_clock(mt) == mt

\* main_loop with the two for-loops in the other order: attacks, then controls.
main_loop_next_attacks_first(nc, na, phase, i) ==
    IF phase = "get_sync"
    THEN IF na > 0 THEN <<"attacks", 1>>
         ELSE IF nc > 0 THEN <<"controls", 1>> ELSE <<"set_sync", 0>>
    ELSE IF phase = "attacks"
    THEN IF i < na THEN <<"attacks", i + 1>>
         ELSE IF nc > 0 THEN <<"controls", 1>> ELSE <<"set_sync", 0>>
    ELSE IF phase = "controls"
    THEN IF i < nc THEN <<"controls", i + 1>> ELSE <<"set_sync", 0>>
    ELSE <<"get_sync", 0>>

\* main_loop without the wait: after set_sync(1) the next iteration starts at once.
main_loop_next_no_wait(nc, na, phase, i) ==
    IF phase \in {"get_sync", "set_sync"}
    THEN IF nc > 0 THEN <<"controls", 1>>
         ELSE IF na > 0 THEN <<"attacks", 1>> ELSE <<"set_sync", 0>>
    ELSE IF phase = "controls"
    THEN IF i < nc THEN <<"controls", i + 1>>
         ELSE IF na > 0 THEN <<"attacks", 1>> ELSE <<"set_sync", 0>>
    ELSE IF i < na THEN <<"attacks", i + 1>> ELSE <<"set_sync", 0>>

\* The control flow of one iteration of main_loop, with nc controls and na attacks:
\* the position that follows the step at <<phase, i>>.
\*   "get_sync" (the poll read 0) -> controls 1..nc -> attacks 1..na -> "set_sync"
\*   -> "get_sync" of the next iteration
main_loop_next(nc, na, phase, i) ==
    IF phase = "get_sync"
    THEN IF nc > 0 THEN <<"controls", 1>>
         ELSE IF na > 0 THEN <<"attacks", 1>> ELSE <<"set_sync", 0>>
    ELSE IF phase = "controls"
    THEN IF i < nc THEN <<"controls", i + 1>>
         ELSE IF na > 0 THEN <<"attacks", 1>> ELSE <<"set_sync", 0>>
    ELSE IF phase = "attacks"
    THEN IF i < na THEN <<"attacks", i + 1>> ELSE <<"set_sync", 0>>
    ELSE <<"get_sync", 0>>

-----------------------------------------------------------------------------
(* The rules: entities.control and entities.attack *)

\* A rule's condition: on the value of a tag (above, below, between) or on the
\* master clock (clock_is, clock_in).
Cond(op, value, lo, hi) == [op |-> op, value |-> value, lo |-> lo, hi |-> hi]

\* Whether the condition holds for tag value v and master clock mt.
CondHolds(cond, v, mt) ==
    CASE cond.op = "above" -> v > cond.value
      [] cond.op = "below" -> v < cond.value
      [] cond.op = "between" -> cond.lo <= v /\ v <= cond.hi
      [] cond.op = "clock_is" -> mt = cond.value
      [] cond.op = "clock_in" -> cond.lo <= mt /\ mt <= cond.hi

\* What applying a rule does: the exception it raises ("none" when it returns),
\* whether its condition held, and the tag store it leaves.
\*   tagRead: the tag the condition reads through get_tag ("" for a clock condition)
\*   io: whether that read succeeds; a failed get / receive raises
RuleApply(p, tagRead, cond, actuator, action, st, mt, io) ==
    LET r == IF tagRead = "" THEN [exc |-> "none"] ELSE get_tag(plcs, p, tagRead)
    IN  IF r.exc # "none"
        THEN [exc |-> r.exc, fired |-> FALSE, store |-> st]
        ELSE IF tagRead # "" /\ ~io
        THEN [exc |-> "IOError", fired |-> FALSE, store |-> st]
        ELSE IF ~CondHolds(cond, IF tagRead = "" THEN 0 ELSE st[tagRead],
                           get_master_clock(mt))
        THEN [exc |-> "none", fired |-> FALSE, store |-> st]
        ELSE LET w == set_tag(plcs[p], st, actuator, action)
             IN  [exc |-> w.exc, fired |-> TRUE, store |-> w.store]

\* Control.apply(plc): AboveControl, BelowControl, TimeControl.
ControlApply(p, c, st, mt, io) ==
    LET type == Lower(c.type)
    IN  IF type = "time"
        THEN RuleApply(p, "", Cond("clock_is", c.value, 0, 0),
                       c.actuator, c.action, st, mt, io)
        ELSE RuleApply(p, c.dependant, Cond(type, c.value, 0, 0),
                       c.actuator, c.action, st, mt, io)

\* Attack.apply(plc): TimeAttack, TriggerAboveAttack, TriggerBelowAttack,
\* TriggerBetweenAttack.
AttackApply(p, a, st, mt, io) ==
    LET type == Lower(a.type)
    IN  IF type = "time"
        THEN RuleApply(p, "", Cond("clock_in", 0, a.start, a.end),
                       a.actuators, a.command, st, mt, io)
        ELSE RuleApply(p, a.sensor, Cond(type, a.value, a.lower_value, a.upper_value),
                       a.actuators, a.command, st, mt, io)

\* The outcomes of the read a rule makes: a clock rule reads no tag.
ReadOutcomes(type) == IF Lower(type) = "time" THEN {TRUE} ELSE BOOLEAN

-----------------------------------------------------------------------------
(* GenericPLC.main_loop, one action per step *)

\* The PLC moves to the position after <<phase, i>>.
Goto(p, phase, i) ==
    LET n == main_loop_next(Len(controls(p)), Len(attacks(p)), phase, i)
    IN  /\ pc' = [pc EXCEPT ![p] = n[1]]
        /\ idx' = [idx EXCEPT ![p] = n[2]]

\* main_loop with a try/except around apply: the exception is noted and the loop
\* goes on with the next rule.
Raise_swallowed(p, e) ==
    /\ exc' = [exc EXCEPT ![p] = e]
    /\ readFails' = [readFails EXCEPT ![p] = @ + (IF e = "IOError" THEN 1 ELSE 0)]
    /\ Goto(p, pc[p], idx[p])
    /\ UNCHANGED <<store, trig>>

\* The exception propagates out of main_loop: the process ends.
Raise(p, e) ==
    /\ pc' = [pc EXCEPT ![p] = "raised"]
    /\ exc' = [exc EXCEPT ![p] = e]
    /\ readFails' = [readFails EXCEPT ![p] = @ + (IF e = "IOError" THEN 1 ELSE 0)]
    /\ UNCHANGED <<idx, store, trig>>

\* No rule has triggered in the iteration yet.
NoneTriggered == [controls |-> {}, attacks |-> {}]

\* One entry of the history of applied rules: the rule object and the value the
\* PLC's own flag had when its apply was called.
Applied(kind, rule, flag) == [kind |-> kind, rule |-> rule, flag |-> flag]

\* The master clock values a rule of the given type reads through
\* get_master_clock when it is applied at clock mt: only a time rule reads it.
ClockRead(type, mt) == IF Lower(type) = "time" THEN {get_master_clock(mt)} ELSE {}

\* The per-PLC counters before the first iteration.
\*   iter: iterations started;  runs, sets: iterations started and set_sync(1)
\*   calls since the simulator last reset the flags;  reads: the clock values read
\*   in the iteration;  rel: the master clock when the flags were last reset
NoStats == [iter |-> 0, runs |-> 0, sets |-> 0, reads |-> {}, rel |-> 0]

\* The polls of one wait, summarised: a 1 read after a 1 or a 0 adds nothing.
Observed(seen, flag) ==
    IF flag = 1 THEN "1" ELSE IF seen = "1" THEN "10" ELSE "0"

\* while self.get_sync(): time.sleep(0.01)
GetSync(p) ==
    /\ pc[p] = "get_sync"
    /\ polled' = [polled EXCEPT ![p] = Observed(@, sync[plcs[p].name])]
    /\ IF get_sync(sync, plcs[p].name)
       THEN UNCHANGED <<pc, idx, trig, readFails, applied, stats>>
       ELSE /\ trig' = [trig EXCEPT ![p] = NoneTriggered]
            /\ readFails' = [readFails EXCEPT ![p] = 0]
            /\ applied' = [applied EXCEPT ![p] = << >>]
            /\ stats' = [stats EXCEPT ![p].iter = @ + 1, ![p].runs = @ + 1,
                                      ![p].reads = {}]
            /\ Goto(p, "get_sync", 0)
    /\ UNCHANGED <<plcs, sync, master_time, store, simpc, exc, last, clears>>
    /\ UNCHANGED <<call, got, p2vars>>

\* for control in self.controls: control.apply(self)
ApplyControl(p) ==
    /\ pc[p] = "controls"
    /\ \E io \in ReadOutcomes(controls(p)[idx[p]].type) :
          LET o == ControlApply(p, controls(p)[idx[p]], store, master_time, io)
          IN  IF o.exc # "none"
              THEN Raise(p, o.exc)
              ELSE /\ store' = o.store
                   /\ trig' = [trig EXCEPT ![p].controls =
                                 IF o.fired THEN @ \cup {controls(p)[idx[p]]} ELSE @]
                   /\ Goto(p, "controls", idx[p])
                   /\ UNCHANGED <<exc, readFails>>
    /\ applied' = [applied EXCEPT ![p] =
                     Append(@, Applied("control", controls(p)[idx[p]], sync[plcs[p].name]))]
    /\ stats' = [stats EXCEPT ![p].reads =
                   @ \cup ClockRead(controls(p)[idx[p]].type, master_time)]
    /\ UNCHANGED <<plcs, sync, master_time, simpc, polled, last, clears>>
    /\ UNCHANGED <<call, got, p2vars>>

\* for attack in self.attacks: attack.apply(self)
ApplyAttack(p) ==
    /\ pc[p] = "attacks"
    /\ \E io \in ReadOutcomes(attacks(p)[idx[p]].type) :
          LET o == AttackApply(p, attacks(p)[idx[p]], store, master_time, io)
          IN  IF o.exc # "none"
              THEN Raise(p, o.exc)
              ELSE /\ store' = o.store
                   /\ trig' = [trig EXCEPT ![p].attacks =
                                 IF o.fired THEN @ \cup {attacks(p)[idx[p]]} ELSE @]
                   /\ Goto(p, "attacks", idx[p])
                   /\ UNCHANGED <<exc, readFails>>
    /\ applied' = [applied EXCEPT ![p] =
                     Append(@, Applied("attack", attacks(p)[idx[p]], sync[plcs[p].name]))]
    /\ stats' = [stats EXCEPT ![p].reads =
                   @ \cup ClockRead(attacks(p)[idx[p]].type, master_time)]
    /\ UNCHANGED <<plcs, sync, master_time, simpc, polled, last, clears>>
    /\ UNCHANGED <<call, got, p2vars>>

\* self.set_sync(1)
SetSync(p) ==
    /\ pc[p] = "set_sync"
    /\ sync' = set_sync(sync, plcs[p].name, 1)
    /\ last' = [by |-> plcs[p].name, table |-> "sync", sync_before |-> sync,
                time_before |-> master_time]
    /\ polled' = [polled EXCEPT ![p] = ""]
    /\ stats' = [stats EXCEPT ![p].sets = @ + 1]
    /\ Goto(p, "set_sync", 0)
    /\ UNCHANGED <<plcs, master_time, store, simpc, exc, trig, readFails, applied, clears>>
    /\ UNCHANGED <<call, got, p2vars>>

-----------------------------------------------------------------------------
(* The physical-process simulator *)

\* All flags read 1: the plant advances one step and the sensors take new values.
SimStep ==
    /\ simpc = "observe"
    /\ master_time < MaxClock
    /\ \A n \in DOMAIN sync : sync[n] = 1
    /\ \E v \in SensorValues : store' = [store EXCEPT !["T1"] = v]
    /\ simpc' = "reset"
    /\ UNCHANGED <<plcs, sync, master_time, pc, idx, exc, trig, polled, readFails, last,
                   applied, stats, clears>>
    /\ UNCHANGED <<call, got, p2vars>>

\* The flags are reset to 0 in one committed write.
SimReset ==
    /\ simpc = "reset"
    /\ sync' = [n \in DOMAIN sync |-> 0]
    /\ last' = [by |-> "simulator", table |-> "sync", sync_before |-> sync,
                time_before |-> master_time]
    /\ simpc' = "clock"
    /\ stats' = [p \in PLCs |-> [stats[p] EXCEPT !.sets = 0, !.runs = 0,
                                                 !.rel = master_time]]
    /\ clears' = clears + 1
    /\ UNCHANGED <<plcs, master_time, store, pc, idx, exc, trig, polled, readFails,
                   applied>>
    /\ UNCHANGED <<call, got, p2vars>>

\* The master clock is incremented in a committed write of its own.
SimClock ==
    /\ simpc = "clock"
    /\ master_time' = master_time + 1
    /\ last' = [by |-> "simulator", table |-> "master_time", sync_before |-> sync,
                time_before |-> master_time]
    /\ simpc' = "observe"
    /\ UNCHANGED <<plcs, sync, store, pc, idx, exc, trig, polled, readFails, applied,
                   stats, clears>>
    /\ UNCHANGED <<call, got, p2vars>>

-----------------------------------------------------------------------------
(* The testbed: the PLCs of a topology and the simulator *)

InitTestbed ==
    /\ plcs \in Topologies
    /\ \E f \in {0, 1} : sync = [n \in Names |-> f]
    /\ master_time = 0
    /\ store \in [StoreTags -> {0, 1, 8, 12}]
    /\ store["T1"] \in SensorValues
    /\ store["P1"] \in {0, 1}
    /\ store["P2"] = 0
    /\ pc = [p \in PLCs |-> "get_sync"]
    /\ idx = [p \in PLCs |-> 0]
    /\ simpc = "observe"
    /\ exc = [p \in PLCs |-> "none"]
    /\ trig = [p \in PLCs |-> NoneTriggered]
    /\ polled = [p \in PLCs |-> ""]
    /\ readFails = [p \in PLCs |-> 0]
    /\ last = [by |-> "boot", table |-> "sync", sync_before |-> sync,
               time_before |-> master_time]
    /\ applied = [p \in PLCs |-> << >>]
    /\ stats = [p \in PLCs |-> NoStats]
    /\ clears = 0

\* PLC2 before it runs: the state pre_loop leaves.
InitPLC2 ==
    /\ t1 \in SensorValues
    /\ local_time = 0
    /\ saved_tank_levels = << >>
    /\ get_error_counter = 0
    /\ lock = "free"
    /\ mpc = "with_lock"
    /\ proc = "running"
    /\ output = "none"
    /\ fails = 0
    /\ bread = "none"

NoCall == [plc |-> 0, tag |-> "", value |-> PyStr(""), exc |-> "none", before |-> << >>]

NoGet == [plc |-> 0, tag |-> "", exc |-> "none", how |-> "none", peer |-> 0,
          receives |-> << >>]

NextTestbed ==
    \/ \E p \in PLCs : GetSync(p)
    \/ \E p \in PLCs : ApplyControl(p)
    \/ \E p \in PLCs : ApplyAttack(p)
    \/ \E p \in PLCs : SetSync(p)
    \/ SimStep
    \/ SimReset
    \/ SimClock

\* The testbed alone: PLC2 does not run and set_tag is called by the rules only.
Init ==
    /\ InitTestbed
    /\ call = NoCall
    /\ got = NoGet
    /\ t1 = 8 /\ local_time = 0 /\ saved_tank_levels = << >> /\ get_error_counter = 0
    /\ lock = "free" /\ mpc = "with_lock" /\ proc = "running" /\ output = "none"
    /\ fails = 0 /\ bread = "none"

Spec == Init /\ [][NextTestbed]_vars

-----------------------------------------------------------------------------
(* Claims about the rule engine of GenericPLC.main_loop *)

\* The value set_tag writes for the action of a rule.
ActionValue(v) == IF Lower(v.s) = "closed" THEN 0 ELSE 1

\* The control list and the attack list of p as its descriptor declares them.
Declared(p) == plcs[p].controls
DeclaredAttacks(p) == plcs[p].attacks

\* The places in the declared lists of the controls / attacks of p that triggered
\* in the iteration and target actuator a.
TriggeredControls(p, a) ==
    { i \in DOMAIN Declared(p) :
         Declared(p)[i] \in trig[p].controls /\ Declared(p)[i].actuator = a }
TriggeredAttacks(p, a) ==
    { j \in DOMAIN DeclaredAttacks(p) :
         DeclaredAttacks(p)[j] \in trig[p].attacks /\ DeclaredAttacks(p)[j].actuators = a }

Last(S) == CHOOSE i \in S : \A j \in S : j <= i

\* The last committed write is the set_sync(1) that ends an iteration of p.
JustSignalled(p) == last.by = plcs[p].name

\* C1 as stated: when a Control and an Attack on the same actuator both trigger in
\* an iteration, the actuator holds that Attack's action when the flag is set to 1.
C1_AnyAttackWins ==
    \A p \in PLCs : JustSignalled(p) =>
        \A a \in StoreTags :
            \A i \in TriggeredControls(p, a) : \A j \in TriggeredAttacks(p, a) :
                store[a] = ActionValue(DeclaredAttacks(p)[j].command)

\* C1 amended: when a Control and an Attack on the same actuator both trigger in an
\* iteration, the actuator holds, when the flag is set to 1, the action of the last
\* Attack of the attack list that triggered on that actuator.
C1_LastAttackWins ==
    \A p \in PLCs : JustSignalled(p) =>
        \A a \in StoreTags :
            (TriggeredControls(p, a) # {} /\ TriggeredAttacks(p, a) # {}) =>
                store[a] = ActionValue(DeclaredAttacks(p)[Last(TriggeredAttacks(p, a))].command)

\* A Control and an Attack with different actions triggered on one actuator, and the
\* iteration has set its flag.
C1_Witness ==
    \E p \in PLCs : \E a \in StoreTags :
        /\ JustSignalled(p)
        /\ \E i \in TriggeredControls(p, a) : \E j \in TriggeredAttacks(p, a) :
              /\ ActionValue(Declared(p)[i].action) # ActionValue(DeclaredAttacks(p)[j].command)
              /\ store[a] = ActionValue(DeclaredAttacks(p)[j].command)

\* C2: when two Controls of the control list trigger on the same actuator in one
\* iteration and no Attack triggers on it, the iteration ends without an exception
\* and the actuator holds the action of the Control declared later.
C2_LaterControlWins ==
    \A p \in PLCs : JustSignalled(p) =>
        \A a \in StoreTags :
            (Cardinality(TriggeredControls(p, a)) >= 2 /\ TriggeredAttacks(p, a) = {}) =>
                /\ exc[p] = "none"
                /\ store[a] = ActionValue(Declared(p)[Last(TriggeredControls(p, a))].action)

\* Two Controls with different actions triggered on one actuator, no Attack did, and
\* the iteration has set its flag.
C2_Witness ==
    \E p \in PLCs : \E a \in StoreTags :
        /\ JustSignalled(p)
        /\ TriggeredAttacks(p, a) = {}
        /\ \E i, j \in TriggeredControls(p, a) :
              /\ i < j
              /\ Declared(p)[i].action # Declared(p)[j].action
              /\ store[a] = ActionValue(Declared(p)[j].action)

-----------------------------------------------------------------------------
(* Claims about the barrier *)

InIteration(p) == pc[p] \in {"controls", "attacks", "set_sync"}

\* C3 as stated: a PLC that has started an iteration polled its own flag as 1 and
\* afterwards as 0 in the wait before it.
C3_SawOneThenZero == \A p \in PLCs : InIteration(p) => polled[p] = "10"

\* C3 amended: a PLC starts an iteration only after a poll that read its own flag
\* as 0, and the flag is 0 throughout the iteration; a poll that read 1 need not
\* come before it.
C3_LastPollReadZero ==
    \A p \in PLCs : InIteration(p) =>
        polled[p] \in {"0", "10"} /\ sync[plcs[p].name] = 0

\* A PLC is in an iteration after the first, and no poll of the wait before it read 1.
C3_Witness ==
    \E p \in PLCs : InIteration(p) /\ polled[p] = "0" /\ master_time > 0

\* C4: the step set_sync(1) sets the PLC's own flag to 1 and leaves every other
\* flag, the master clock and the tag values as they were.
C4_SetSyncFrame ==
    [][\A p \in PLCs :
          (pc[p] = "set_sync" /\ pc'[p] # "set_sync") =>
              /\ sync'[plcs[p].name] = 1
              /\ \A n \in DOMAIN sync : n # plcs[p].name => sync'[n] = sync[n]
              /\ master_time' = master_time
              /\ store' = store]_vars

\* A PLC has just set its flag while the flag of another PLC is 0.
C4_Witness ==
    \E p \in PLCs :
        /\ JustSignalled(p)
        /\ sync[plcs[p].name] = 1
        /\ \E n \in DOMAIN sync : n # plcs[p].name /\ sync[n] = 0

\* C5: every flag is 0 or 1; a write to the sync table by a PLC changes its own flag
\* from 0 to 1 and no other row; a write by the simulator changes flags from 1 to 0
\* only; the master clock is written by the simulator only.
C5_FlagWriters ==
    /\ \A n \in DOMAIN sync : sync[n] \in {0, 1}
    /\ \A p \in PLCs : JustSignalled(p) =>
          /\ last.table = "sync"
          /\ last.sync_before[plcs[p].name] = 0
          /\ sync[plcs[p].name] = 1
          /\ \A n \in DOMAIN sync : n # plcs[p].name => sync[n] = last.sync_before[n]
    /\ (last.by = "simulator" /\ last.table = "sync") =>
          \A n \in DOMAIN sync : last.sync_before[n] = 1 /\ sync[n] = 0
    /\ last.by \in Names \cup {"simulator", "boot"}
    /\ last.table = "master_time" => last.by = "simulator"

\* Both kinds of write have happened: the simulator has released the PLCs and a
\* PLC has set its flag again.
C5_Witness ==
    \E p \in PLCs : JustSignalled(p) /\ master_time > 0

\* C9: a tag read that fails is retried; an I/O exception leaves main_loop only
\* after get_error_counter_limit failed reads in the iteration.
C9_ReadFailureIsRetried ==
    \A p \in PLCs : exc[p] = "IOError" => readFails[p] >= get_error_counter_limit

-----------------------------------------------------------------------------
(* Claims about the order of an iteration and the lock-step of the PLCs *)

\* The exceptions a rule raises for a tag or a value it cannot handle.
RuleErrors == {"TagDoesNotExist", "InvalidControlValue"}

\* C14: in an iteration the controls are applied in the order of their declaration,
\* then the attacks in the order of their declaration, and the flag is set to 1 only
\* after the last rule has been applied; no rule is applied while the PLC's own
\* flag is 1.
C14_FixedOrder ==
    \A p \in PLCs :
        LET nc == Len(Declared(p))
            na == Len(DeclaredAttacks(p))
        IN  /\ Len(applied[p]) <= nc + na
            /\ \A k \in DOMAIN applied[p] :
                  /\ applied[p][k].flag = 0
                  /\ IF k <= nc
                     THEN /\ applied[p][k].kind = "control"
                          /\ applied[p][k].rule = Declared(p)[k]
                     ELSE /\ applied[p][k].kind = "attack"
                          /\ applied[p][k].rule = DeclaredAttacks(p)[k - nc]
            /\ JustSignalled(p) => Len(applied[p]) = nc + na

\* A PLC with two controls and two attacks has applied all four and set its flag.
C14_Witness ==
    \E p \in PLCs :
        /\ JustSignalled(p) /\ sync[plcs[p].name] = 1
        /\ Len(Declared(p)) = 2 /\ Len(DeclaredAttacks(p)) = 2
        /\ Len(applied[p]) = 4

\* C15: a TagDoesNotExist or InvalidControlValue raised by a rule leaves main_loop:
\* the PLC stops at that rule, applies no later rule, retries nothing and does not
\* set its flag.
C15_RuleFailurePropagates ==
    [][ \A p \in PLCs :
          /\ exc'[p] \in RuleErrors =>
                /\ pc'[p] = "raised"
                /\ sync'[plcs[p].name] = 0
          /\ exc[p] \in RuleErrors =>
                /\ exc'[p] = exc[p]
                /\ applied'[p] = applied[p]
                /\ stats'[p].sets = stats[p].sets
                /\ stats'[p].iter = stats[p].iter ]_vars

\* The first of several rules has raised: the PLC has stopped there with its flag
\* at 0 while another PLC has set its flag and waits.
C15_Witness ==
    \E p, q \in PLCs :
        /\ exc[p] \in RuleErrors /\ pc[p] = "raised"
        /\ Len(applied[p]) = 1
        /\ Len(Declared(p)) + Len(DeclaredAttacks(p)) > 1
        /\ sync[plcs[p].name] = 0 /\ sync[plcs[q].name] = 1

\* C16: between two resets of the flags by the simulator every PLC starts exactly
\* one iteration and sets its flag exactly once, and no PLC is two iterations ahead
\* of another.
C16_LockStep ==
    \A p \in PLCs :
        /\ stats[p].runs <= 1 /\ stats[p].sets <= 1
        /\ stats[p].sets <= stats[p].iter
        /\ (simpc = "reset" /\ clears >= 1) => (stats[p].runs = 1 /\ stats[p].sets = 1)
        /\ \A q \in PLCs : stats[p].iter - stats[q].iter \in {-1, 0, 1}

\* The simulator is about to reset the flags for the second time, a PLC with rules
\* among those it releases.
C16_Witness ==
    /\ simpc = "reset" /\ clears = 1
    /\ \E p \in PLCs : Len(applied[p]) = 2 /\ stats[p].runs = 1 /\ stats[p].sets = 1

\* C17 as stated: the clock reads of one iteration all return the same value, for
\* one PLC and across the PLCs that are in the same iteration.
C17_OneClockPerIteration ==
    \A p, q \in PLCs :
        stats[p].iter = stats[q].iter =>
            Cardinality(stats[p].reads \cup stats[q].reads) <= 1

\* C17: a clock read of the iteration that follows a reset of the flags returns the
\* clock as it was at the reset or that value plus one: the increment is a write of
\* its own, after the reset, and a released PLC may read before or after it.
C17_ClockWithinOneOfRelease ==
    \A p \in PLCs :
        stats[p].runs = 1 => stats[p].reads \subseteq {stats[p].rel, stats[p].rel + 1}

\* After a reset a PLC has read both clock values in one iteration.
C17_Witness ==
    \E p \in PLCs :
        /\ clears >= 1 /\ stats[p].runs = 1
        /\ stats[p].reads = {stats[p].rel, stats[p].rel + 1}

-----------------------------------------------------------------------------
(* Progress of the testbed *)

\* Each PLC process keeps running and so does the simulator: a step of main_loop
\* (a poll after time.sleep(0.01), an apply, set_sync) or of the simulator that
\* stays possible is taken.
Fairness ==
    /\ \A p \in {1, 2} :
          WF_vars(GetSync(p) \/ ApplyControl(p) \/ ApplyAttack(p) \/ SetSync(p))
    /\ WF_vars(SimStep \/ SimReset \/ SimClock)

\* The topologies in which plc2 declares at most one control and one attack.
LiveTopologies ==
    { << Plc1, Plc2(cs, as) >> :
         cs \in { << >> } \cup { << c >> : c \in ControlPool },
         as \in { << >> } \cup { << a >> : a \in AttackPool } }

\* The testbed over these topologies, the pump P1 off at the start.
InitLive == Init /\ plcs \in LiveTopologies /\ store["P1"] = 0

FairSpec == InitLive /\ [][NextTestbed]_vars /\ Fairness

\* No rule application has raised.
NoneRaised == \A p \in PLCs : exc[p] = "none"

\* All flags read 1.
AllSignalled == \A n \in DOMAIN sync : sync[n] = 1

\* C18: with every PLC and the simulator running and no rule application raising,
\* the testbed does not get stuck: a PLC whose flag is 0 sets it to 1, the simulator
\* comes to see all flags at 1, and the master clock goes up to MaxClock, where the
\* simulator of the model stops.
C18_Progress ==
    []NoneRaised =>
        /\ \A n \in {"plc1", "plc2"} : (sync[n] = 0) ~> (sync[n] = 1)
        /\ []<>AllSignalled
        /\ <>(master_time = MaxClock)

\* The clock has reached MaxClock with no rule raising and every PLC has finished
\* the iteration that followed the last reset.
C18_Witness ==
    /\ master_time = MaxClock /\ NoneRaised /\ AllSignalled
    /\ \A p \in PLCs : stats[p].sets = 1 /\ stats[p].runs = 1

-----------------------------------------------------------------------------
(* set_tag called with arbitrary arguments *)

\* The values set_tag is handed: strings and integers.
SetValues ==
    { PyStr(x) : x \in {"open", "closed", "OPEN", "Closed", "auto", ""} }
        \cup { PyInt(n) : n \in {0, 1, 2} }

\* plc.set_tag(t, v)
SetTagCall(p, t, v) ==
    LET o == set_tag(plcs[p], store, t, v)
    IN  /\ store' = o.store
        /\ call' = [plc |-> p, tag |-> t, value |-> v, exc |-> o.exc, before |-> store]
        /\ UNCHANGED <<plcs, sync, master_time, pc, idx, simpc, exc, trig, polled,
                       readFails, last, applied, stats, clears, got, p2vars>>

InitSetTag ==
    /\ plcs \in Topologies
    /\ Len(plcs[2].controls) + Len(plcs[2].attacks) = 0
    /\ sync = [n \in Names |-> 1]
    /\ master_time = 0
    /\ store \in [StoreTags -> {0, 1, 8, 12}]
    /\ store["T1"] \in SensorValues
    /\ store["P1"] \in {0, 1}
    /\ store["P2"] \in {0, 1}
    /\ pc = [p \in PLCs |-> "get_sync"]
    /\ idx = [p \in PLCs |-> 0]
    /\ simpc = "observe"
    /\ exc = [p \in PLCs |-> "none"]
    /\ trig = [p \in PLCs |-> NoneTriggered]
    /\ polled = [p \in PLCs |-> ""]
    /\ readFails = [p \in PLCs |-> 0]
    /\ last = [by |-> "boot", table |-> "sync", sync_before |-> sync,
               time_before |-> master_time]
    /\ applied = [p \in PLCs |-> << >>]
    /\ stats = [p \in PLCs |-> NoStats]
    /\ clears = 0
    /\ call = NoCall
    /\ got = NoGet
    /\ t1 = 8 /\ local_time = 0 /\ saved_tank_levels = << >> /\ get_error_counter = 0
    /\ lock = "free" /\ mpc = "with_lock" /\ proc = "running" /\ output = "none"
    /\ fails = 0 /\ bread = "none"

NextSetTag == \E p \in PLCs : \E t \in AllTags : \E v \in SetValues : SetTagCall(p, t, v)

SpecSetTag == InitSetTag /\ [][NextSetTag]_vars

\* set_tag has been called; its descriptor and whether it owned the tag.
Called == call.plc # 0
CallOwned == Declares(plcs[call.plc], call.tag)
CallOnActuator == InList(call.tag, plcs[call.plc].actuators)
CallSymbol == IF call.value.kind = "str" THEN Lower(call.value.s) ELSE ""

-----------------------------------------------------------------------------
(* get_tag called with arbitrary arguments, over topologies whose descriptors *)
(* may lack the 'sensors' or the 'actuators' key                              *)

\* A descriptor as the yaml has it when the key is left out.
DelKey(desc, key) == [f \in DOMAIN desc \ {key} |-> desc[f]]

\* The descriptors of one PLC: with or without sensor T1, with or without
\* actuator P1, each of the two keys present or left out.
YamlDescriptors(name, ip) ==
    LET full == { Descriptor(name, ip, ss, as, << >>, << >>) :
                     ss \in { << >>, <<"T1">> }, as \in { << >>, <<"P1">> } }
    IN  full \cup { DelKey(d, "sensors") : d \in full }
             \cup { DelKey(d, "actuators") : d \in full }
             \cup { DelKey(DelKey(d, "sensors"), "actuators") : d \in full }

YamlTopologies ==
    { << a, b, c >> : a \in YamlDescriptors("plc1", "ip1"),
                      b \in YamlDescriptors("plc2", "ip2"),
                      c \in YamlDescriptors("plc3", "ip3") }

\* plc.get_tag(t)
GetTagCall(p, t) ==
    LET o == get_tag(plcs, p, t)
    IN  /\ got' = [plc |-> p, tag |-> t, exc |-> o.exc, how |-> o.how, peer |-> o.peer,
                   receives |-> o.receives]
        /\ UNCHANGED <<gvars, call, p2vars>>

InitGetTag ==
    /\ plcs \in YamlTopologies
    /\ sync = [n \in Names |-> 1]
    /\ master_time = 0
    /\ store = [t \in StoreTags |-> IF t = "T1" THEN 8 ELSE 0]
    /\ pc = [p \in PLCs |-> "get_sync"]
    /\ idx = [p \in PLCs |-> 0]
    /\ simpc = "observe"
    /\ exc = [p \in PLCs |-> "none"]
    /\ trig = [p \in PLCs |-> NoneTriggered]
    /\ polled = [p \in PLCs |-> ""]
    /\ readFails = [p \in PLCs |-> 0]
    /\ last = [by |-> "boot", table |-> "sync", sync_before |-> sync,
               time_before |-> master_time]
    /\ applied = [p \in PLCs |-> << >>]
    /\ stats = [p \in PLCs |-> NoStats]
    /\ clears = 0
    /\ call = NoCall
    /\ got = NoGet
    /\ t1 = 8 /\ local_time = 0 /\ saved_tank_levels = << >> /\ get_error_counter = 0
    /\ lock = "free" /\ mpc = "with_lock" /\ proc = "running" /\ output = "none"
    /\ fails = 0 /\ bread = "none"

NextGetTag == \E p \in PLCs : \E t \in AllTags : GetTagCall(p, t)

SpecGetTag == InitGetTag /\ [][NextGetTag]_vars

\* The descriptor declares the tag: one of the lists it has holds it.
HasTag(desc, tag) ==
    \E k \in {"sensors", "actuators"} \cap DOMAIN desc : InList(tag, desc[k])

\* The peers of self, in topology order, that declare the tag.
DeclaringPeers(topo, self, tag) ==
    { i \in DOMAIN topo : i # self /\ HasTag(topo[i], tag) }

\* C11: get_tag of a local tag returns the local value and makes no network read;
\* of any other tag it makes exactly one network read, against the first peer in
\* topology order that declares the tag; when no peer declares the tag it fails
\* with TagDoesNotExist and makes no network read, also when a peer descriptor has
\* no sensors or no actuators at all.
C11_GetTagResolution ==
    got.plc # 0 =>
        LET peers == DeclaringPeers(plcs, got.plc, got.tag)
        IN  IF HasTag(plcs[got.plc], got.tag)
            THEN got.exc = "none" /\ got.how = "local" /\ got.receives = << >>
            ELSE IF peers # {}
            THEN /\ got.exc = "none" /\ got.how = "remote"
                 /\ got.receives =
                       << plcs[CHOOSE i \in peers : \A j \in peers : i <= j].public_ip >>
            ELSE got.exc = "TagDoesNotExist" /\ got.receives = << >>

\* get_tag of a tag that no descriptor declares has ended in a KeyError, raised
\* at a peer descriptor that lacks a key.
C11_Witness ==
    /\ got.plc # 0 /\ got.exc = "KeyError"
    /\ ~HasTag(plcs[got.plc], got.tag)
    /\ DeclaringPeers(plcs, got.plc, got.tag) = {}

-----------------------------------------------------------------------------
(* PLC2: main_loop, send_system_state and the signal handler *)

\* The except clause with  <=  in place of  < .
on_read_error_off_by_one(counter) ==
    [counter |-> counter + 1, continue |-> counter + 1 <= get_error_counter_limit]

\* The except clause of main_loop: the counter it leaves and whether the loop
\* continues (otherwise exit(0)).
on_read_error(counter) ==
    [counter |-> counter + 1, continue |-> counter + 1 < get_error_counter_limit]

\* with self.lock:  (entering)
MainAcquire ==
    /\ proc = "running" /\ mpc = "with_lock"
    /\ local_time < MaxLocalTime
    /\ lock = "free"
    /\ lock' = "main"
    /\ mpc' = "get"
    /\ UNCHANGED <<t1, local_time, saved_tank_levels, get_error_counter, proc, output,
                   fails, bread>>
    /\ UNCHANGED <<gvars, call, got>>

\* The read with an assignment to self.t1 on the failing path as well.
MainRead_assigns_on_failure ==
    /\ proc = "running" /\ mpc = "get"
    /\ \/ /\ \E v \in SensorValues : t1' = v
          /\ fails' = 0
          /\ mpc' = "unlock"
          /\ UNCHANGED lock
       \/ /\ lock' = "free"
          /\ fails' = fails + 1
          /\ mpc' = "except"
          /\ \E v \in SensorValues : t1' = v
    /\ UNCHANGED <<local_time, saved_tank_levels, get_error_counter, proc, output, bread>>
    /\ UNCHANGED <<gvars, call, got>>

\* self.t1 = Decimal(self.get(T1)): the read succeeds and t1 is assigned, or it
\* raises, the with block releases the lock and control reaches the except clause.
MainRead ==
    /\ proc = "running" /\ mpc = "get"
    /\ \/ /\ \E v \in SensorValues : t1' = v
          /\ fails' = 0
          /\ mpc' = "unlock"
          /\ UNCHANGED lock
       \/ /\ lock' = "free"
          /\ fails' = fails + 1
          /\ mpc' = "except"
          /\ UNCHANGED t1
    /\ UNCHANGED <<local_time, saved_tank_levels, get_error_counter, proc, output, bread>>
    /\ UNCHANGED <<gvars, call, got>>

\* with self.lock:  (leaving after the assignment)
MainUnlock ==
    /\ proc = "running" /\ mpc = "unlock"
    /\ lock' = "free"
    /\ mpc' = "inc"
    /\ UNCHANGED <<t1, local_time, saved_tank_levels, get_error_counter, proc, output,
                   fails, bread>>
    /\ UNCHANGED <<gvars, call, got>>

\* The except clause calling self.write_output() before exit(0).
MainExcept_persisting ==
    /\ proc = "running" /\ mpc = "except"
    /\ get_error_counter' = on_read_error(get_error_counter).counter
    /\ IF on_read_error(get_error_counter).continue
       THEN mpc' = "with_lock" /\ UNCHANGED <<proc, output>>
       ELSE proc' = "aborted" /\ output' = saved_tank_levels /\ UNCHANGED mpc
    /\ UNCHANGED <<t1, local_time, saved_tank_levels, lock, fails, bread>>
    /\ UNCHANGED <<gvars, call, got>>

\* except Exception: get_error_counter += 1; continue below the limit, else exit(0)
MainExcept ==
    /\ proc = "running" /\ mpc = "except"
    /\ get_error_counter' = on_read_error(get_error_counter).counter
    /\ IF on_read_error(get_error_counter).continue
       THEN mpc' = "with_lock" /\ UNCHANGED proc
       ELSE proc' = "aborted" /\ UNCHANGED mpc
    /\ UNCHANGED <<t1, local_time, saved_tank_levels, lock, output, fails, bread>>
    /\ UNCHANGED <<gvars, call, got>>

\* self.local_time += 1
MainInc ==
    /\ proc = "running" /\ mpc = "inc"
    /\ local_time' = local_time + 1
    /\ mpc' = "append"
    /\ UNCHANGED <<t1, saved_tank_levels, get_error_counter, lock, proc, output, fails,
                   bread>>
    /\ UNCHANGED <<gvars, call, got>>

\* self.saved_tank_levels.append([self.local_time, datetime.now(), self.t1])
MainAppend ==
    /\ proc = "running" /\ mpc = "append"
    /\ saved_tank_levels' = Append(saved_tank_levels, <<local_time, t1>>)
    /\ mpc' = "reset"
    /\ UNCHANGED <<t1, local_time, get_error_counter, lock, proc, output, fails, bread>>
    /\ UNCHANGED <<gvars, call, got>>

\* get_error_counter = 0
MainReset ==
    /\ proc = "running" /\ mpc = "reset"
    /\ get_error_counter' = 0
    /\ mpc' = "with_lock"
    /\ UNCHANGED <<t1, local_time, saved_tank_levels, lock, proc, output, fails, bread>>
    /\ UNCHANGED <<gvars, call, got>>

\* send_system_state: while self.reader: self.send(T1, self.t1, ENIP_LISTEN_PLC_ADDR)
\* self.reader is never cleared; the thread takes no lock before it reads self.t1.
Broadcast ==
    /\ proc = "running"
    /\ bread' = lock
    /\ UNCHANGED <<t1, local_time, saved_tank_levels, get_error_counter, lock, mpc, proc,
                   output, fails>>
    /\ UNCHANGED <<gvars, call, got>>

\* The handler writing the log without its last row.
Sigint_without_last_row ==
    /\ proc = "running"
    /\ output' = SubSeq(saved_tank_levels, 1, Len(saved_tank_levels) - 1)
    /\ proc' = "exited"
    /\ lock' = IF lock = "main" THEN "free" ELSE lock
    /\ UNCHANGED <<t1, local_time, saved_tank_levels, get_error_counter, mpc, fails, bread>>
    /\ UNCHANGED <<gvars, call, got>>

\* sigint_handler, on SIGINT or SIGTERM, between any two steps of the main thread:
\* write_output() and sys.exit(0).
Sigint ==
    /\ proc = "running"
    /\ output' = saved_tank_levels
    /\ proc' = "exited"
    /\ lock' = IF lock = "main" THEN "free" ELSE lock
    /\ UNCHANGED <<t1, local_time, saved_tank_levels, get_error_counter, mpc, fails, bread>>
    /\ UNCHANGED <<gvars, call, got>>

InitP2 ==
    /\ plcs = << Plc1, Plc2(<< >>, << >>) >>
    /\ sync = [n \in Names |-> 1]
    /\ master_time = 0
    /\ store = [t \in StoreTags |-> IF t = "T1" THEN 8 ELSE 0]
    /\ pc = [p \in PLCs |-> "get_sync"]
    /\ idx = [p \in PLCs |-> 0]
    /\ simpc = "observe"
    /\ exc = [p \in PLCs |-> "none"]
    /\ trig = [p \in PLCs |-> NoneTriggered]
    /\ polled = [p \in PLCs |-> ""]
    /\ readFails = [p \in PLCs |-> 0]
    /\ last = [by |-> "boot", table |-> "sync", sync_before |-> sync,
               time_before |-> master_time]
    /\ applied = [p \in PLCs |-> << >>]
    /\ stats = [p \in PLCs |-> NoStats]
    /\ clears = 0
    /\ call = NoCall
    /\ got = NoGet
    /\ InitPLC2

NextP2 ==
    \/ MainAcquire
    \/ MainRead
    \/ MainUnlock
    \/ MainExcept
    \/ MainInc
    \/ MainAppend
    \/ MainReset
    \/ Broadcast
    \/ Sigint

SpecP2 == InitP2 /\ [][NextP2]_vars

\* C8: at the top of the loop the retry counter equals the number of reads that
\* failed since the last successful read (0 right after a success, however many
\* failures came before it); the process aborts exactly when that number reaches
\* get_error_counter_limit, not earlier and not later.
C8_RetryCounter ==
    /\ (mpc = "with_lock" /\ proc # "aborted") => get_error_counter = fails
    /\ proc = "aborted" => fails = get_error_counter_limit
    /\ (fails >= get_error_counter_limit /\ proc = "running") => mpc = "except"
    /\ fails <= get_error_counter_limit

\* The process has aborted after 100 failed reads in a row that followed a
\* successful read.
C8_Witness ==
    /\ proc = "aborted" /\ local_time > 0
    /\ fails = get_error_counter_limit /\ get_error_counter = get_error_counter_limit

\* C10: whenever send_system_state has read self.t1, it held self.lock, so the read
\* did not fall inside the locked update of the main loop.
C10_BroadcastReadsUnderLock == bread \in {"none", "broadcast"}

\* send_system_state has read self.t1 while the main loop held self.lock.
C10_Witness == bread = "main"

\* The rows carry the iteration numbers 1, 2, ... in order.
RowsNumbered(rows) == \A k \in DOMAIN rows : rows[k][1] = k

\* C12: when the retry ceiling is reached the process ends at once and nothing is
\* persisted: the abort never writes the output, and after the abort there is no
\* further read, log append or local_time increment.
C12_AbortWithoutOutput ==
    [][ /\ proc' = "aborted" => output' = "none"
        /\ proc = "aborted" => UNCHANGED p2vars ]_vars

\* The process has aborted with rows in its log and has written no output.
C12_Witness ==
    /\ proc = "aborted" /\ output = "none"
    /\ Len(saved_tank_levels) > 0 /\ local_time = Len(saved_tank_levels)

C19_ReadFrame ==
    [][ /\ (mpc = "get" /\ mpc' = "except") =>
             /\ UNCHANGED <<t1, local_time, saved_tank_levels, get_error_counter>>
             /\ lock' = "free"
        /\ mpc = "except" =>
             /\ UNCHANGED <<t1, local_time, saved_tank_levels>>
             /\ lock' = "free"
        /\ (mpc = "inc" /\ mpc' = "append") =>
             /\ local_time' = local_time + 1
             /\ UNCHANGED <<t1, saved_tank_levels>>
        /\ (mpc = "append" /\ mpc' = "reset") =>
             /\ saved_tank_levels' = Append(saved_tank_levels, <<local_time, t1>>)
             /\ UNCHANGED <<t1, local_time>>
        /\ mpc' \notin {"append", "reset"} => UNCHANGED <<local_time, saved_tank_levels>>
        /\ RowsNumbered(saved_tank_levels')
        /\ Len(saved_tank_levels') = local_time' - (IF mpc' = "append" THEN 1 ELSE 0)
      ]_vars

\* The second row has been appended after a read that succeeded on a retry.
C19_Witness ==
    /\ mpc = "reset" /\ get_error_counter > 0
    /\ Len(saved_tank_levels) = 2 /\ saved_tank_levels[2][1] = 2

====
